---- MODULE Spec2Model ----
(***************************************************************************)
(* Model of the weather ingestion pipeline of weather_pipeline_secure.py   *)
(* (fetch, transform, SCD Type-2 upsert into calgary_weather_data) and of  *)
(* the scheduler task of weather_pipeline_dag.py that calls main().        *)
(*                                                                         *)
(* Units.  A Kelvin temperature of the provider is an integer number of    *)
(* thousandths of a kelvin (280150 is 280.15 K), so that a payload value   *)
(* with three decimals exists.  The DECIMAL(5,2) columns temperature and   *)
(* conv_temp hold hundredths (28015 is 280.15).  Timestamps of the store   *)
(* (NOW()) are ticks of the variable clock.                                *)
(*                                                                         *)
(* Transactions.  Each upsert_weather_scd_type2 call is one PostgreSQL     *)
(* transaction at the default isolation level READ COMMITTED: a statement  *)
(* reads the rows committed when it starts plus the changes of its own     *)
(* transaction, an UPDATE waits for the row locks of other transactions    *)
(* and then re-checks its WHERE clause on the rows it had found, and       *)
(* NOW() is the start time of the transaction.  The clock need not have    *)
(* advanced between two transactions.                                      *)
(*                                                                         *)
(* Environment.  The provider answers each request with any status and     *)
(* body, the store may fail under any call, and a run may be cancelled at  *)
(* any position.  Spec runs the task any number of times, one run after    *)
(* another; SpecOverlap lets two runs overlap.                             *)
(***************************************************************************)
EXTENDS Integers, Sequences, FiniteSets, TLC

\* ------------------------------------------------------------------ bounds
NumRuns == 2        \* scheduler task instances (processes running main)
NumKeys == 2        \* distinct forecast hours (dt_txt values)
MaxBatch == 2       \* entries of one provider snapshot
MaxOverlapBatch == 1 \* the same, for runs that overlap
MaxRows == 3        \* rows of calgary_weather_data
MaxClock == 2       \* last tick of the store clock

Runs == 1..NumRuns
Keys == 1..NumKeys

\* What the provider forecasts for an hour: main.temp in thousandths of a
\* kelvin, and the (main, description) pair of weather[0].  The second
\* reading differs from the first in the third decimal only, the third in
\* the temperature, the fourth in the weather.
Readings == {<<280150, "Clear">>, <<280153, "Clear">>,
             <<282000, "Clear">>, <<280150, "Rain">>}

\* SQL NULL in the valid_to column.
NULL == 0 - 1

\* ------------------------------------------------------- pure functions
\* The entries of response['list'] a provider body can hold.
RawEntries ==
    {[dt_txt |-> k, temp |-> x[1], weather |-> x[2]] : k \in Keys, x \in Readings}

\* A dt_txt that is not the text of a timestamp.
NotATimestamp == 0

\* Entries a provider body can hold beside those of RawEntries: one whose
\* dt_txt is not a timestamp, and one without main.temp.
BrokenEntries ==
    {[dt_txt |-> NotATimestamp, temp |-> 280150, weather |-> "Clear"],
     [dt_txt |-> 1, weather |-> "Clear"]}

\* The subscripts of the loop of parse_list find their keys in the entry.
HasFields(item) == {"dt_txt", "temp", "weather"} \subseteq DOMAIN item

\* The store can cast the text sent for :datetime to TIMESTAMP.
IsTimestamp(dt) == dt \in Keys

\* round(x, 2) of a value given in thousandths, result in hundredths.
\* No temperature of Readings lies half-way between two hundredths.
Round2(milli) == (milli + 5) \div 10

\* ParseEntry with 273 for 273.15.
ParseEntryWholeKelvin(item) ==
    [datetime    |-> item.dt_txt,
     temperature |-> item.temp,
     weather_info |-> item.weather,
     conv_temp   |-> Round2(item.temp - 273000)]

\* One iteration of the loop of parse_list: the normalised record.
ParseEntry(item) ==
    [datetime    |-> item.dt_txt,
     temperature |-> item.temp,
     weather_info |-> item.weather,
     conv_temp   |-> Round2(item.temp - 273150)]

\* parse_list(response): one record per entry, in order.
parse_list(list) == [i \in 1..Len(list) |-> ParseEntry(list[i])]

\* A value written to a DECIMAL(5,2) column is rounded to two decimals.
Dec52(milli) == Round2(milli)

\* DECIMAL(5,2) holds absolute values below 1000.00.
FitsDec52(centi) == centi < 100000 /\ centi > 0 - 100000

\* ------------------------------------------------------- SQL of the upsert
\* Differs without its comparison of weather_info.
DiffersNoWeather(row, p) ==
    \/ row.temperature * 10 # p.temperature
    \/ row.conv_temp # p.conv_temp

\* The three comparisons of the UPDATE's WHERE clause: a numeric column
\* against the parameter as sent, not as the column would store it.
Differs(row, p) ==
    \/ row.temperature * 10 # p.temperature
    \/ row.conv_temp # p.conv_temp
    \/ row.weather_info # p.weather_info

\* ExpireWhere without datetime = :datetime.
ExpireWhereAnyKey(row, p) ==
    /\ row.is_current
    /\ Differs(row, p)

\* ExpireWhere without is_current = TRUE.
ExpireWhereAnyVersion(row, p) ==
    /\ row.datetime = p.datetime
    /\ Differs(row, p)

\* WHERE clause of expire_query.
ExpireWhere(row, p) ==
    /\ row.datetime = p.datetime
    /\ row.is_current
    /\ Differs(row, p)

\* ExpireSet without is_current = FALSE.
ExpireSetKeepsCurrent(row, now) == [row EXCEPT !.valid_to = now]

\* SET clause of expire_query, NOW() being the transaction's start time.
ExpireSet(row, now) == [row EXCEPT !.valid_to = now, !.is_current = FALSE]

\* InsertExists without datetime = :datetime.
InsertExistsAnyKey(rows, p) ==
    \E i \in 1..Len(rows) :
        /\ rows[i].temperature * 10 = p.temperature
        /\ rows[i].conv_temp = p.conv_temp
        /\ rows[i].weather_info = p.weather_info
        /\ rows[i].is_current

\* The subquery under NOT EXISTS of insert_query, over the rows the
\* statement can see.
InsertExists(rows, p) ==
    \E i \in 1..Len(rows) :
        /\ rows[i].datetime = p.datetime
        /\ rows[i].temperature * 10 = p.temperature
        /\ rows[i].conv_temp = p.conv_temp
        /\ rows[i].weather_info = p.weather_info
        /\ rows[i].is_current

\* The row insert_query's SELECT list produces, as the columns store it.
NewRow(p, now) ==
    [datetime     |-> p.datetime,
     temperature  |-> Dec52(p.temperature),
     conv_temp    |-> p.conv_temp,
     weather_info |-> p.weather_info,
     valid_from   |-> now,
     valid_to     |-> NULL,
     is_current   |-> TRUE]

\* UniqueViolation for a table without the constraint.
UniqueViolationNever(rows, new) == FALSE

\* UNIQUE(datetime, valid_from) of create_weather_table.
UniqueViolation(rows, new) ==
    \E i \in 1..Len(rows) :
        /\ rows[i].datetime = new.datetime
        /\ rows[i].valid_from = new.valid_from

\* ------------------------------------------------------------------- state
VARIABLES
    table,      \* committed rows of calgary_weather_data, by id
    clock,      \* the store's clock
    pc,         \* where each run is in main()
    data,       \* main: the body main_request returned
    batch,      \* main: parsed_data / weather_df
    idx,        \* main: position of the upsert loop in weather_df
    tnow,       \* open transaction: NOW()
    cand,       \* open transaction: rows the UPDATE's scan found
    locked,     \* open transaction: rows updated, not yet committed
    pend,       \* open transaction: row inserted, not yet committed
    outcome,    \* how main() ended for its caller
    failed,     \* the stage of the run that failed, if any
    badFetch,   \* a provider request of the run did not succeed
    wrote,      \* the run sent a statement of the upsert to the store
    sent,       \* requests the run has sent to the provider
    touched,    \* the keys whose rows the run has changed
    inserted,   \* rows the run's committed upserts inserted
    expired,    \* rows the run's committed upserts expired
    lastOp,     \* what the run's last committed upsert did
    undone,     \* row changes the rollback at the run's end discarded
    left,       \* rows of the batch not reconciled when main() ended
    rerun,      \* the run's snapshot is the one the previous run completed
    lastBatch   \* the batch of the last run, if it completed

vars == <<table, clock, pc, data, batch, idx, tnow, cand, locked, pend,
          outcome, failed, badFetch, wrote, sent, touched, inserted, expired,
          lastOp, left, undone, rerun, lastBatch>>

txnVars == <<tnow, cand, locked, pend>>
histVars == <<touched, inserted, expired, lastOp, rerun, sent>>
mainVars == <<data, batch, idx>>
endVars == <<outcome, failed, left, undone>>

\* Bodies a provider response can carry: unparsable text, a JSON object
\* without 'list' (the provider's error object), or a forecast list.
Lists == UNION {[1..n -> RawEntries] : n \in 0..MaxBatch}
Bodies == {[kind |-> "garbage", list |-> <<>>], [kind |-> "error", list |-> <<>>]}
              \cup {[kind |-> "list", list |-> l] : l \in Lists}
NoData == [kind |-> "none", list |-> <<>>]
\* Bodies with at most one entry.
ShortBodies == {b \in Bodies : Len(b.list) <= MaxOverlapBatch}
\* Bodies whose entries may be broken: the entries are a first reading of
\* each hour and the broken ones.
SuspectEntries ==
    {e \in RawEntries : e.temp = 280150 /\ e.weather = "Clear"} \cup BrokenEntries
SuspectBodies ==
    {[kind |-> "garbage", list |-> <<>>], [kind |-> "error", list |-> <<>>]}
        \cup {[kind |-> "list", list |-> l] :
                l \in UNION {[1..n -> SuspectEntries] : n \in 0..MaxBatch}}
Statuses == {200, 404}
NoBatch == [ok |-> FALSE, batch |-> <<>>]
NoOp == "none"

\* Positions of main() at which a store call is in progress.
StorePcs == {"load", "loop", "expire", "expire_lock", "insert",
             "insert_index", "commit", "verify"}
TxnPcs == {"expire", "expire_lock", "insert", "insert_index", "commit"}
LoopPcs == TxnPcs \cup {"loop"}

Init ==
    /\ table = <<>>
    /\ clock = 0
    /\ pc = [r \in Runs |-> "idle"]
    /\ data = [r \in Runs |-> NoData]
    /\ batch = [r \in Runs |-> <<>>]
    /\ idx = [r \in Runs |-> 0]
    /\ tnow = [r \in Runs |-> 0]
    /\ cand = [r \in Runs |-> {}]
    /\ locked = [r \in Runs |-> {}]
    /\ pend = [r \in Runs |-> <<>>]
    /\ outcome = [r \in Runs |-> "none"]
    /\ failed = [r \in Runs |-> "none"]
    /\ badFetch = [r \in Runs |-> FALSE]
    /\ wrote = [r \in Runs |-> FALSE]
    /\ sent = [r \in Runs |-> 0]
    /\ touched = [r \in Runs |-> {}]
    /\ inserted = [r \in Runs |-> 0]
    /\ expired = [r \in Runs |-> 0]
    /\ lastOp = [r \in Runs |-> NoOp]
    /\ left = [r \in Runs |-> 0]
    /\ undone = [r \in Runs |-> 0]
    /\ rerun = [r \in Runs |-> FALSE]
    /\ lastBatch = NoBatch

\* ---------------------------------------------------------------- helpers
Put(f, r, v) == [f EXCEPT ![r] = v]

\* The record the loop of main() hands to upsert_weather_scd_type2.
new_data(r) == batch[r][idx[r]]

\* Rows a statement of run r can see: the committed rows, with the rows
\* its own transaction has updated as it updated them.
Visible(r) ==
    [i \in 1..Len(table) |->
        IF i \in locked[r] THEN ExpireSet(table[i], tnow[r]) ELSE table[i]]

\* The committed rows after run r's transaction commits.
Committed(r) == Visible(r) \o pend[r]

\* RolledBack with each statement committed as it ends (autocommit).
RolledBackKeepsUpdate(r) == Visible(r)

\* The committed rows after run r's transaction is rolled back (the
\* engine.begin() block left by an exception, or the connection lost).
RolledBack(r) == table

\* The rows of key k, by id.
RowsOf(rows, k) == {<<i, rows[i]>> : i \in {j \in 1..Len(rows) : rows[j].datetime = k}}

\* The keys whose rows differ between two states of the table.
Changed(old, new) == {k \in Keys : RowsOf(old, k) # RowsOf(new, k)}

\* No transaction is open for run r any more.
CloseTxn(r) ==
    /\ tnow' = Put(tnow, r, 0)
    /\ cand' = Put(cand, r, {})
    /\ locked' = Put(locked, r, {})
    /\ pend' = Put(pend, r, <<>>)

\* Rows of the batch the loop of main() has not reconciled.
Unreconciled(r) ==
    IF pc[r] \in LoopPcs THEN Len(batch[r]) + 1 - idx[r] ELSE 0

\* main() ends: how, and which stage failed.  An open transaction is
\* rolled back, and the locals of main() are gone.
Ends(r, how, stage) ==
    /\ pc' = Put(pc, r, "done")
    /\ outcome' = Put(outcome, r, how)
    /\ failed' = Put(failed, r, stage)
    /\ left' = Put(left, r, Unreconciled(r))
    /\ undone' = Put(undone, r, Cardinality(locked[r]) + Len(pend[r]))
    /\ table' = RolledBack(r)
    /\ CloseTxn(r)
    /\ data' = Put(data, r, NoData)
    /\ batch' = Put(batch, r, <<>>)
    /\ idx' = Put(idx, r, 0)

\* ------------------------------------------------------ actions of a run
\* The scheduler starts the task: run_weather_pipeline calls main().
Starts(r) ==
    /\ pc[r] = "idle"
    /\ pc' = Put(pc, r, "request")
    /\ UNCHANGED <<table, clock, mainVars, txnVars, endVars, badFetch, wrote,
                   histVars, lastBatch>>

\* One run at a time: the task starts while no other run is under way.
StartRun(r) ==
    /\ \A o \in Runs : pc[o] = "idle"
    /\ Starts(r)

\* The task starts whatever the other runs are doing.
StartAnyTime(r) == Starts(r)

\* main, step 1: requests.get(url) and the test of its status_code.  The
\* request raises on a network error; any status but 200 prints and
\* returns.
Request(r) ==
    /\ pc[r] = "request"
    /\ \/ /\ Ends(r, "raised", "fetch")
          /\ badFetch' = Put(badFetch, r, TRUE)
       \/ \E st \in Statuses :
            IF st = 200
            THEN /\ pc' = Put(pc, r, "main_request")
                 /\ UNCHANGED <<table, mainVars, txnVars, endVars, badFetch>>
            ELSE /\ Ends(r, "returned", "fetch")
                 /\ badFetch' = Put(badFetch, r, TRUE)
    /\ sent' = Put(sent, r, sent[r] + 1)
    /\ UNCHANGED <<clock, wrote, touched, inserted, expired, lastOp, rerun,
                   lastBatch>>

\* The body is the snapshot whose batch the last run reconciled to the end.
SameAsLast(body) ==
    /\ lastBatch.ok
    /\ body.kind = "list"
    /\ \A i \in 1..Len(body.list) : HasFields(body.list[i])
    /\ lastBatch.batch = parse_list(body.list)

\* main_request: a second requests.get and r.json(), whose status is not
\* looked at.  The call raises on a network error and on a body that is
\* not JSON.  The provider answers with one of bodies.
MainRequestOf(r, bodies) ==
    /\ pc[r] = "main_request"
    /\ \/ /\ Ends(r, "raised", "fetch")
          /\ badFetch' = Put(badFetch, r, TRUE)
          /\ UNCHANGED <<rerun, lastBatch>>
       \/ \E st \in Statuses, body \in bodies :
            IF body.kind = "garbage"
            THEN /\ Ends(r, "raised", "fetch")
                 /\ badFetch' = Put(badFetch, r, TRUE)
                 /\ UNCHANGED <<rerun, lastBatch>>
            ELSE /\ pc' = Put(pc, r, "transform")
                 /\ data' = Put(data, r, body)
                 /\ badFetch' = Put(badFetch, r, st # 200)
                 /\ rerun' = Put(rerun, r, SameAsLast(body))
                 /\ lastBatch' = NoBatch
                 /\ UNCHANGED <<table, batch, idx, txnVars, endVars>>
    /\ sent' = Put(sent, r, sent[r] + 1)
    /\ UNCHANGED <<clock, wrote, touched, inserted, expired, lastOp>>

MainRequest(r) == MainRequestOf(r, Bodies)

MainRequestShort(r) == MainRequestOf(r, ShortBodies)

MainRequestSuspect(r) == MainRequestOf(r, SuspectBodies)

\* main, steps 2 and 3: parse_list(data), the data frame and the CSV
\* file.  response['list'] raises KeyError on a body without 'list', and
\* the loop of parse_list on the first entry without one of its fields,
\* before main() has a parsed record.
Transform(r) ==
    /\ pc[r] = "transform"
    /\ IF \/ data[r].kind # "list"
          \/ \E i \in 1..Len(data[r].list) : ~HasFields(data[r].list[i])
       THEN Ends(r, "raised", "transform")
       ELSE /\ pc' = Put(pc, r, "load")
            /\ batch' = Put(batch, r, parse_list(data[r].list))
            /\ UNCHANGED <<table, data, idx, txnVars, endVars>>
    /\ UNCHANGED <<clock, badFetch, wrote, histVars, lastBatch>>

\* main, step 4: create_database_engine and create_weather_table.  The
\* table exists from the start, so CREATE TABLE IF NOT EXISTS changes
\* nothing.
CreateTable(r) ==
    /\ pc[r] = "load"
    /\ pc' = Put(pc, r, "loop")
    /\ idx' = Put(idx, r, 1)
    /\ UNCHANGED <<table, clock, data, batch, txnVars, endVars, badFetch,
                   wrote, histVars, lastBatch>>

\* The loop has a next row: engine.begin() opens its transaction, whose
\* NOW() is the clock's value.
BeginUpsert(r) ==
    /\ pc[r] = "loop"
    /\ idx[r] <= Len(batch[r])
    /\ Len(table) + Cardinality({o \in Runs : pc[o] \in TxnPcs}) < MaxRows
    /\ pc' = Put(pc, r, "expire")
    /\ tnow' = Put(tnow, r, clock)
    /\ UNCHANGED <<table, clock, mainVars, cand, locked, pend, endVars,
                   badFetch, wrote, histVars, lastBatch>>

\* expire_query starts: its scan finds the committed rows that match.
\* The store rejects the statement when :datetime is not a timestamp;
\* the except clause of main() prints and returns.
ExpireScan(r) ==
    /\ pc[r] = "expire"
    /\ wrote' = Put(wrote, r, TRUE)
    /\ IF IsTimestamp(new_data(r).datetime)
       THEN /\ cand' = Put(cand, r,
                    {i \in 1..Len(table) : ExpireWhere(table[i], new_data(r))})
            /\ pc' = Put(pc, r, "expire_lock")
            /\ UNCHANGED <<table, mainVars, tnow, locked, pend, endVars>>
       ELSE Ends(r, "returned", "store")
    /\ UNCHANGED <<clock, badFetch, histVars, lastBatch>>

\* expire_query ends: once no other transaction holds a lock on a row it
\* found, it updates those that still match.
ExpireApply(r) ==
    /\ pc[r] = "expire_lock"
    /\ \A o \in Runs \ {r} : cand[r] \cap locked[o] = {}
    /\ locked' = Put(locked, r,
            {i \in cand[r] : ExpireWhere(table[i], new_data(r))})
    /\ pc' = Put(pc, r, "insert")
    /\ UNCHANGED <<table, clock, mainVars, tnow, cand, pend, endVars,
                   badFetch, wrote, histVars, lastBatch>>

\* insert_query starts: NOT EXISTS is decided on the rows it can see.
InsertSelect(r) ==
    /\ pc[r] = "insert"
    /\ pc' = Put(pc, r, IF InsertExists(Visible(r), new_data(r))
                        THEN "commit" ELSE "insert_index")
    /\ UNCHANGED <<table, clock, mainVars, txnVars, endVars, badFetch, wrote,
                   histVars, lastBatch>>

\* insert_query ends: the row is stored unless a column overflows or the
\* unique index has its (datetime, valid_from); it waits for another
\* transaction that is inserting the same pair.  The error is caught by
\* the except clause of main(), which prints and returns.
InsertIndex(r) ==
    /\ pc[r] = "insert_index"
    /\ LET new == NewRow(new_data(r), tnow[r]) IN
        /\ \A o \in Runs \ {r} : ~UniqueViolation(pend[o], new)
        /\ IF \/ ~FitsDec52(new.temperature)
              \/ ~FitsDec52(new.conv_temp)
              \/ UniqueViolation(table, new)
           THEN Ends(r, "returned", "store")
           ELSE /\ pend' = Put(pend, r, <<new>>)
                /\ pc' = Put(pc, r, "commit")
                /\ UNCHANGED <<table, mainVars, tnow, cand, locked, endVars>>
    /\ UNCHANGED <<clock, badFetch, wrote, histVars, lastBatch>>

\* The engine.begin() block ends: the transaction commits and the loop
\* moves to the next row.
Commit(r) ==
    /\ pc[r] = "commit"
    /\ table' = Committed(r)
    /\ CloseTxn(r)
    /\ pc' = Put(pc, r, "loop")
    /\ idx' = Put(idx, r, idx[r] + 1)
    /\ inserted' = Put(inserted, r, inserted[r] + Len(pend[r]))
    /\ expired' = Put(expired, r, expired[r] + Cardinality(locked[r]))
    /\ lastOp' = Put(lastOp, r,
            IF locked[r] # {} THEN "expired"
            ELSE IF pend[r] # <<>> THEN "inserted" ELSE "unchanged")
    /\ touched' = Put(touched, r, touched[r] \cup Changed(table, Committed(r)))
    /\ UNCHANGED <<clock, data, batch, endVars, badFetch, wrote, rerun,
                   sent, lastBatch>>

\* The loop is over: "Data loaded", then step 5.
LoopEnd(r) ==
    /\ pc[r] = "loop"
    /\ idx[r] > Len(batch[r])
    /\ pc' = Put(pc, r, "verify")
    /\ UNCHANGED <<table, clock, mainVars, txnVars, endVars, badFetch, wrote,
                   histVars, lastBatch>>

\* main, step 5: the count of current rows, "Pipeline completed
\* successfully!", and main() returns.
Verify(r) ==
    /\ pc[r] = "verify"
    /\ Ends(r, "returned", "none")
    /\ lastBatch' = [ok |-> TRUE, batch |-> batch[r]]
    /\ UNCHANGED <<clock, badFetch, wrote, histVars>>

\* The store fails under a call of step 4 or 5 (connection refused or
\* lost, statement error): the except clause prints and main() returns.
StoreError(r) ==
    /\ pc[r] \in StorePcs
    /\ Ends(r, "returned", "store")
    /\ UNCHANGED <<clock, badFetch, wrote, histVars, lastBatch>>

\* The task is cancelled (timeout or signal): the process ends wherever
\* it is and the store drops its connection.
Cancel(r) ==
    /\ pc[r] \notin {"idle", "done"}
    /\ Ends(r, "killed", "cancel")
    /\ UNCHANGED <<clock, badFetch, wrote, histVars, lastBatch>>

\* The task instance is over; the scheduler may start the task again.
TaskOver(r) ==
    /\ pc[r] = "done"
    /\ pc' = Put(pc, r, "idle")
    /\ outcome' = Put(outcome, r, "none")
    /\ failed' = Put(failed, r, "none")
    /\ left' = Put(left, r, 0)
    /\ undone' = Put(undone, r, 0)
    /\ badFetch' = Put(badFetch, r, FALSE)
    /\ wrote' = Put(wrote, r, FALSE)
    /\ touched' = Put(touched, r, {})
    /\ inserted' = Put(inserted, r, 0)
    /\ expired' = Put(expired, r, 0)
    /\ lastOp' = Put(lastOp, r, NoOp)
    /\ rerun' = Put(rerun, r, FALSE)
    /\ sent' = Put(sent, r, 0)
    /\ UNCHANGED <<table, clock, mainVars, txnVars, lastBatch>>

\* The store's clock advances.
Tick ==
    /\ clock < MaxClock
    /\ clock' = clock + 1
    /\ UNCHANGED <<table, pc, mainVars, txnVars, endVars, badFetch, wrote,
                   histVars, lastBatch>>

\* ---------------------------------------------------------- specifications
\* The steps of main() after the task has started, but for main_request.
Step(r) ==
    \/ Request(r)
    \/ Transform(r)
    \/ CreateTable(r)
    \/ BeginUpsert(r)
    \/ ExpireScan(r)
    \/ ExpireApply(r)
    \/ InsertSelect(r)
    \/ InsertIndex(r)
    \/ Commit(r)
    \/ LoopEnd(r)
    \/ Verify(r)
    \/ StoreError(r)
    \/ Cancel(r)

\* Runs one after another, any number of them.
Next ==
    \/ \E r \in Runs : StartRun(r)
    \/ \E r \in Runs : MainRequest(r)
    \/ \E r \in Runs : Step(r)
    \/ \E r \in Runs : TaskOver(r)
    \/ Tick

Spec == Init /\ [][Next]_vars

\* The store as an earlier run left it: empty, or one current row.
PriorTables ==
    {<<>>,
     <<NewRow(ParseEntry([dt_txt |-> 1, temp |-> 280150, weather |-> "Clear"]), 0)>>}

InitOverlap ==
    /\ table \in PriorTables
    /\ clock = 0
    /\ pc = [r \in Runs |-> "idle"]
    /\ data = [r \in Runs |-> NoData]
    /\ batch = [r \in Runs |-> <<>>]
    /\ idx = [r \in Runs |-> 0]
    /\ tnow = [r \in Runs |-> 0]
    /\ cand = [r \in Runs |-> {}]
    /\ locked = [r \in Runs |-> {}]
    /\ pend = [r \in Runs |-> <<>>]
    /\ outcome = [r \in Runs |-> "none"]
    /\ failed = [r \in Runs |-> "none"]
    /\ badFetch = [r \in Runs |-> FALSE]
    /\ wrote = [r \in Runs |-> FALSE]
    /\ sent = [r \in Runs |-> 0]
    /\ touched = [r \in Runs |-> {}]
    /\ inserted = [r \in Runs |-> 0]
    /\ expired = [r \in Runs |-> 0]
    /\ lastOp = [r \in Runs |-> NoOp]
    /\ left = [r \in Runs |-> 0]
    /\ undone = [r \in Runs |-> 0]
    /\ rerun = [r \in Runs |-> FALSE]
    /\ lastBatch = NoBatch

\* Runs that may overlap (a slow run and the scheduler's next one), each
\* task instance running once.
NextOverlap ==
    \/ \E r \in Runs : StartAnyTime(r)
    \/ \E r \in Runs : MainRequestShort(r)
    \/ \E r \in Runs : Step(r)
    \/ Tick

SpecOverlap == InitOverlap /\ [][NextOverlap]_vars

\* No run is under way and none has left a trace.
NoRuns ==
    /\ pc = [r \in Runs |-> "idle"]
    /\ data = [r \in Runs |-> NoData]
    /\ batch = [r \in Runs |-> <<>>]
    /\ idx = [r \in Runs |-> 0]
    /\ tnow = [r \in Runs |-> 0]
    /\ cand = [r \in Runs |-> {}]
    /\ locked = [r \in Runs |-> {}]
    /\ pend = [r \in Runs |-> <<>>]
    /\ outcome = [r \in Runs |-> "none"]
    /\ failed = [r \in Runs |-> "none"]
    /\ badFetch = [r \in Runs |-> FALSE]
    /\ wrote = [r \in Runs |-> FALSE]
    /\ sent = [r \in Runs |-> 0]
    /\ touched = [r \in Runs |-> {}]
    /\ inserted = [r \in Runs |-> 0]
    /\ expired = [r \in Runs |-> 0]
    /\ lastOp = [r \in Runs |-> NoOp]
    /\ left = [r \in Runs |-> 0]
    /\ undone = [r \in Runs |-> 0]
    /\ rerun = [r \in Runs |-> FALSE]
    /\ lastBatch = NoBatch

\* The store as two overlapping runs leave it when both insert the first
\* row of a key: two current rows of the key, the second transaction
\* having started one tick after the first.
RacedTable ==
    <<NewRow(ParseEntry([dt_txt |-> 1, temp |-> 280150, weather |-> "Clear"]), 0),
      NewRow(ParseEntry([dt_txt |-> 1, temp |-> 280150, weather |-> "Clear"]), 1)>>

InitRaced ==
    /\ table = RacedTable
    /\ clock = 1
    /\ NoRuns

\* Runs one after another, each with a snapshot of at most one entry.
NextShort ==
    \/ \E r \in Runs : StartRun(r)
    \/ \E r \in Runs : MainRequestShort(r)
    \/ \E r \in Runs : Step(r)
    \/ \E r \in Runs : TaskOver(r)
    \/ Tick

\* Runs one after another whose snapshots may hold broken entries.
NextMalformed ==
    \/ \E r \in Runs : StartRun(r)
    \/ \E r \in Runs : MainRequestSuspect(r)
    \/ \E r \in Runs : Step(r)
    \/ \E r \in Runs : TaskOver(r)
    \/ Tick

SpecMalformed == Init /\ [][NextMalformed]_vars

\* The steps main() takes by itself, without waiting for an answer of the
\* provider or of the store.
LocalStep(r) ==
    \/ Transform(r)
    \/ CreateTable(r)
    \/ LoopEnd(r)

\* Runs one after another in which a run that can take a step of its own
\* takes it.  requests.get, create_engine and the statements have no
\* timeout: nothing makes the provider or the store answer, and nothing
\* ends a call that waits for them.
SpecLive == Init /\ [][NextShort]_vars /\ \A r \in Runs : WF_vars(LocalStep(r))

\* Runs one after another on a store that overlapping runs have left.
SpecRaced == InitRaced /\ [][NextShort]_vars

\* ------------------------------------------------------------------ claims
\* Ids of the current rows of key k.
CurrentOf(rows, k) ==
    {i \in 1..Len(rows) : rows[i].datetime = k /\ rows[i].is_current}

\* Ids of the rows of key k.
IdsOf(rows, k) == {i \in 1..Len(rows) : rows[i].datetime = k}

\* The step is the commit of run r's upsert.
CommitStep(r) == pc[r] = "commit" /\ pc'[r] = "loop"

\* C1: with runs one after another, every key has at most one row with
\* is_current = true in every state of the table.
AtMostOneCurrent ==
    \A k \in Keys : Cardinality(CurrentOf(table, k)) <= 1

\* C1 witness: a key that went through a change has one expired and one
\* current row.
SupersededKey ==
    \E k \in Keys :
        /\ Cardinality(CurrentOf(table, k)) = 1
        /\ IdsOf(table, k) \ CurrentOf(table, k) # {}

\* C2: a run whose batch is the batch the previous run reconciled to the
\* end inserts no row and expires no row.
RerunUnchanged ==
    \A r \in Runs : rerun[r] => inserted[r] = 0 /\ expired[r] = 0

\* C3: with overlapping runs, no key is left with two rows whose
\* is_current is true, as no serial order of the two upserts leaves it.
OverlapLeavesOneCurrent ==
    ~ \E i, j \in 1..Len(table) :
        /\ i < j
        /\ table[i].datetime = table[j].datetime
        /\ table[i].is_current
        /\ table[j].is_current

FirstSightingInserts ==
    [][\A r \in Runs :
        (CommitStep(r) /\ IdsOf(table, new_data(r).datetime) = {})
        => /\ Len(table') = Len(table) + 1
           /\ \A i \in 1..Len(table) : table'[i] = table[i]
           /\ table'[Len(table')].datetime = new_data(r).datetime
           /\ table'[Len(table')].is_current
           /\ table'[Len(table')].valid_to = NULL]_vars

\* C5 witness: the first upsert into the empty table inserted its row.
FirstRowInserted ==
    \E r \in Runs :
        /\ lastOp[r] = "inserted"
        /\ inserted[r] = 1
        /\ expired[r] = 0
        /\ Len(table) = 1

\* C6: in every step the committed rows of a key change as a whole: a row
\* is expired only together with the insert of a current row of its key,
\* and a row is inserted only if no older row of its key stays current.
ExpireInsertAtomic ==
    [][\A k \in Keys :
        LET gone == CurrentOf(table, k) \ CurrentOf(table', k)
            come == IdsOf(table', k) \ (1..Len(table))
        IN /\ gone # {} => come # {} /\ come \subseteq CurrentOf(table', k)
           /\ come # {} => CurrentOf(table', k) \subseteq come]_vars

\* C6 witness: a run ended inside an upsert that had expired a row, and
\* that row is still current.
FailedInsideUpsert ==
    \E r \in Runs :
        /\ pc[r] = "done"
        /\ failed[r] \in {"store", "cancel"}
        /\ undone[r] > 0
        /\ \E k \in Keys : CurrentOf(table, k) # {} /\ Cardinality(IdsOf(table, k)) = 1

\* C7: when the store fails in the loop after a row was reconciled, the
\* failure changes no committed row, and no key that only the rest of
\* the batch holds has had a row changed by the run.
FailureIsolated ==
    [][\A r \in Runs :
        (/\ pc[r] \in LoopPcs
         /\ idx[r] >= 2
         /\ failed'[r] = "store")
        => /\ table' = table
           /\ \A j \in idx[r]..Len(batch[r]) :
                (\A i \in 1..(idx[r] - 1) :
                    batch[r][i].datetime # batch[r][j].datetime)
                => batch[r][j].datetime \notin touched[r]]_vars

\* C7 witness: a run failed on the store with a row of a first key
\* committed and a row of the batch left, a second key having no row.
FailedBetweenKeys ==
    \E r \in Runs :
        /\ pc[r] = "done"
        /\ failed[r] = "store"
        /\ left[r] >= 1
        /\ Cardinality(touched[r]) = 1
        /\ \E k \in Keys : IdsOf(table, k) = {}

\* C8: a run one of whose provider requests did not succeed transforms
\* nothing and sends no statement to the store.
BadFetchStopsRun ==
    \A r \in Runs : badFetch[r] => batch[r] = <<>> /\ ~wrote[r]

\* C9: a run in which a stage failed ends with an exception for its
\* caller, never as a run that succeeded ends.
FailureReachesCaller ==
    \A r \in Runs :
        (pc[r] = "done" /\ failed[r] \in {"fetch", "transform", "store"})
        => outcome[r] = "raised"

\* C10: no step deletes a row, changes the key, readings or valid_from
\* of a row, or changes a row that is no longer current.
AppendOnly ==
    [][/\ Len(table') >= Len(table)
       /\ \A i \in 1..Len(table) :
            /\ table'[i].datetime = table[i].datetime
            /\ table'[i].temperature = table[i].temperature
            /\ table'[i].conv_temp = table[i].conv_temp
            /\ table'[i].weather_info = table[i].weather_info
            /\ table'[i].valid_from = table[i].valid_from
            /\ (table[i].valid_to # NULL \/ ~table[i].is_current)
                => table'[i] = table[i]]_vars

\* C10 witness: two rows are expired, the first of them before the upsert
\* that expired the second.
TwoExpiredRows ==
    \E i, j \in 1..Len(table) :
        /\ i < j
        /\ ~table[i].is_current
        /\ ~table[j].is_current
        /\ table[i].valid_to # NULL

\* C11: every parsed record and every stored row holds the Celsius value
\* round(kelvin - 273.15, 2); the upsert of 280.15 K for a key without
\* rows leaves one current row at 7.00, and the upsert of 282.00 K for a
\* key whose only row is that one leaves it expired at 7.00 and one
\* current row at 8.85.
CelsiusAndTwoRuns ==
    /\ [](/\ \A r \in Runs : \A i \in 1..Len(batch[r]) :
                batch[r][i].conv_temp
                    = (batch[r][i].temperature - 273150 + 5) \div 10
          /\ \A i \in 1..Len(table) :
                table[i].conv_temp = table[i].temperature - 27315)
    /\ [][\A r \in Runs :
            CommitStep(r) =>
                LET k == new_data(r).datetime
                    old == IdsOf(table, k)
                    new == IdsOf(table', k)
                IN /\ (new_data(r).temperature = 280150 /\ old = {})
                        => /\ Cardinality(new) = 1
                           /\ \A i \in new :
                                table'[i].is_current /\ table'[i].conv_temp = 700
                   /\ (/\ new_data(r).temperature = 282000
                       /\ Cardinality(old) = 1
                       /\ \A i \in old :
                            table[i].is_current /\ table[i].conv_temp = 700)
                        => /\ Cardinality(new) = 2
                           /\ \A i \in old :
                                ~table'[i].is_current /\ table'[i].conv_temp = 700
                           /\ \A i \in new \ old :
                                table'[i].is_current /\ table'[i].conv_temp = 885]_vars

\* C11 witness: after the second run the table is the expired row at
\* 7.00 followed by the current row at 8.85.
TwoRunsReconciled ==
    /\ Len(table) = 2
    /\ table[1].datetime = table[2].datetime
    /\ table[1].temperature = 28015 /\ table[2].temperature = 28200
    /\ table[1].conv_temp = 700 /\ ~table[1].is_current
    /\ table[2].conv_temp = 885 /\ table[2].is_current
    /\ \E r \in Runs : lastOp[r] = "expired" /\ inserted[r] = 1

\* C12: an upsert for a key that has more than one current row does not
\* commit and changes no row: the run fails on it instead.
DuplicateCurrentFailsRun ==
    [][\A r \in Runs :
        (/\ pc[r] \in TxnPcs
         /\ Cardinality(CurrentOf(table, new_data(r).datetime)) > 1)
        => /\ ~CommitStep(r)
           /\ table' = table]_vars

\* The table is the one InitRaced starts from.
RacedTableLeft == table = RacedTable

\* C13: a run whose snapshot holds an entry that lacks a field or whose
\* dt_txt is not a timestamp inserts no row and expires no row.
MalformedSnapshotWritesNothing ==
    \A r \in Runs :
        (/\ data[r].kind = "list"
         /\ \E i \in 1..Len(data[r].list) :
                \/ ~HasFields(data[r].list[i])
                \/ ~IsTimestamp(data[r].list[i].dt_txt))
        => inserted[r] = 0 /\ expired[r] = 0

\* C13, its part on a missing field: a run whose snapshot holds an entry
\* that lacks a field has no parsed record and sends no statement.
MissingFieldStopsRun ==
    \A r \in Runs :
        (/\ data[r].kind = "list"
         /\ \E i \in 1..Len(data[r].list) : ~HasFields(data[r].list[i]))
        => batch[r] = <<>> /\ ~wrote[r]

\* C14: every row that is not current has a valid_to, no earlier than its
\* valid_from; the rows of a key are strictly ordered by valid_from (no
\* two have the same), and an expired row's valid_to is no later than the
\* valid_from of the versions of its key that follow it in that order.
ChainOrdered ==
    /\ \A i \in 1..Len(table) :
            ~table[i].is_current
                => table[i].valid_to # NULL /\ table[i].valid_to >= table[i].valid_from
    /\ \A i, j \in 1..Len(table) :
            (i # j /\ table[i].datetime = table[j].datetime)
                => /\ table[i].valid_from # table[j].valid_from
                   /\ (~table[i].is_current /\ table[i].valid_from < table[j].valid_from)
                        => table[i].valid_to <= table[j].valid_from

\* C15: no two rows have the same (datetime, valid_from), whatever the
\* interleaving of the runs and whether or not the clock advanced between
\* two transactions.
UniqueKeyAndStart ==
    \A i, j \in 1..Len(table) :
        (/\ table[i].datetime = table[j].datetime
         /\ table[i].valid_from = table[j].valid_from)
        => i = j

\* C15 witness: the insert of a run is at the index while the key has a
\* committed row whose valid_from is the NOW() of the run's transaction,
\* the clock not having advanced since that row's transaction started.
SecondInsertAtIndex ==
    \E r \in Runs :
        /\ pc[r] = "insert_index"
        /\ \E i \in 1..Len(table) :
            /\ table[i].datetime = new_data(r).datetime
            /\ table[i].valid_from = tnow[r]

\* C16: a run sends at most one request to the provider, so a run that
\* has a snapshot has sent exactly one.
OneRequestPerRun ==
    \A r \in Runs :
        /\ sent[r] <= 1
        /\ data[r].kind # "none" => sent[r] = 1

\* C17: every run that has started ends, with success or failure, even
\* if the provider or the store never answers.
EveryRunEnds ==
    \A r \in Runs : (pc[r] = "request") ~> (pc[r] = "done")

\* C18: the commit of an upsert for key k leaves every row of every other
\* key as it was and adds no row of another key, whether it inserts,
\* expires and inserts, or changes nothing; no other step of an upsert
\* changes a committed row.
OtherKeysUntouched ==
    [][\A r \in Runs :
        pc[r] \in TxnPcs =>
            IF CommitStep(r)
            THEN /\ \A i \in 1..Len(table) :
                        table[i].datetime # new_data(r).datetime
                            => i <= Len(table') /\ table'[i] = table[i]
                 /\ \A i \in 1..Len(table') :
                        i > Len(table) => table'[i].datetime = new_data(r).datetime
            ELSE table' = table]_vars

\* C18 witness: a run's last upsert expired a row of one key and inserted
\* its replacement while another key has a current row.
ExpiredBesideOtherKey ==
    \E r \in Runs :
        /\ lastOp[r] = "expired"
        /\ pc[r] = "loop"
        /\ \E k \in touched[r], o \in Keys \ touched[r] :
            /\ Cardinality(IdsOf(table, k)) = 2
            /\ CurrentOf(table, o) # {}

\* C19: a row is current exactly when it has no valid_to.
CurrentIffOpen ==
    \A i \in 1..Len(table) : table[i].is_current <=> table[i].valid_to = NULL

\* C19 witness: the table holds a row inserted and never updated (current,
\* no valid_to) and a row the UPDATE has closed (not current, valid_to
\* a time of the clock).
OpenAndClosedRows ==
    \E i, j \in 1..Len(table) :
        /\ table[i].is_current /\ table[i].valid_to = NULL
        /\ ~table[j].is_current /\ table[j].valid_to \in 0..MaxClock

====
